---- MODULE Spec2Model ----
(***************************************************************************)
(* Model of the MongoDB snapshot manager (src/python/mongodb_snapshot.py). *)
(* One manager object lives in one single-threaded process; the MongoDB    *)
(* instance and the backup directory are its environment.                  *)
(***************************************************************************)
EXTENDS Integers, Sequences, FiniteSets, TLC

(***************************************************************************)
(* Bounds of the model.                                                    *)
(***************************************************************************)
\* invocations of create_snapshot / restore_snapshot explored
MaxInvocations == 2
\* writes other clients make to the instance between invocations
MaxEnvWrites == 1
\* clock ticks explored (the clock counts half seconds)
MaxClock == 2
\* lines of the collection file that exists before the program starts
MaxLines == 2

\* strftime('%Y%m%d_%H%M%S') keeps whole seconds; the clock counts halves
TicksPerSecond == 2

(***************************************************************************)
(* Python values, their str() and the eval() of that text.                 *)
(* A value is a tagged tuple; a document is a "dict" value whose payload   *)
(* is the ordered sequence of <<key, value>> pairs.                        *)
(***************************************************************************)
IntV(n) == <<"int", n>>
StrV(n) == <<"str", n>>
NoneV == <<"none", 0>>
BoolV(n) == <<"bool", n>>
OidV(n) == <<"oid", n>>
DateV(n) == <<"dt", n>>
ListV(vs) == <<"list", vs>>
DictV(pairs) == <<"dict", pairs>>

\* names bound at module level of mongodb_snapshot.py when eval() runs
ModuleGlobals == {"os", "logging", "schedule", "time", "datetime",
                  "MongoClient", "load_dotenv", "MongoDBSnapshot", "main"}

\* the attributes a dotted name can take from a module global: `datetime` is
\* the class datetime.datetime, which has no attribute `datetime`
GlobalAttributes(name) ==
    IF name = "datetime" THEN {"now", "strftime", "utcnow"} ELSE {}

\* repr() of a value: literals print as literals, driver and library types
\* print as constructor calls
RECURSIVE Repr(_)
Repr(v) ==
    CASE v[1] = "oid" -> <<"call", <<"ObjectId">>, v[2]>>
      [] v[1] = "dt" -> <<"call", <<"datetime", "datetime">>, v[2]>>
      [] v[1] = "list" -> <<"listlit", [i \in 1..Len(v[2]) |-> Repr(v[2][i])]>>
      [] v[1] = "dict" ->
            <<"dictlit", [i \in 1..Len(v[2]) |-> <<v[2][i][1], Repr(v[2][i][2])>>]>>
      [] OTHER -> <<"lit", v>>

\* str(document): one line of text, a dict display
PyStr(document) ==
    [form |-> "dict",
     items |-> [i \in 1..Len(document[2]) |->
                  <<document[2][i][1], Repr(document[2][i][2])>>],
     closed |-> TRUE]

\* the exception evaluating an expression raises, "" when it raises none
RECURSIVE ExprRaises(_)
ExprRaises(e) ==
    CASE e[1] = "lit" -> ""
      [] e[1] = "call" ->
            IF e[2][1] \notin ModuleGlobals THEN "NameError"
            ELSE IF Len(e[2]) > 1 /\ e[2][2] \notin GlobalAttributes(e[2][1])
                 THEN "AttributeError"
                 ELSE ""
      [] e[1] = "listlit" ->
            IF \E i \in 1..Len(e[2]) : ExprRaises(e[2][i]) # ""
            THEN ExprRaises(e[2][CHOOSE i \in 1..Len(e[2]) :
                                   /\ ExprRaises(e[2][i]) # ""
                                   /\ \A j \in 1..(i-1) : ExprRaises(e[2][j]) = ""])
            ELSE ""
      [] e[1] = "dictlit" ->
            IF \E i \in 1..Len(e[2]) : ExprRaises(e[2][i][2]) # ""
            THEN ExprRaises(e[2][CHOOSE i \in 1..Len(e[2]) :
                                   /\ ExprRaises(e[2][i][2]) # ""
                                   /\ \A j \in 1..(i-1) : ExprRaises(e[2][j][2]) = ""][2])
            ELSE ""

\* the value of an expression that raises nothing
RECURSIVE ExprValue(_)
ExprValue(e) ==
    CASE e[1] = "lit" -> e[2]
      [] e[1] = "call" -> IF e[2] = <<"ObjectId">> THEN OidV(e[3]) ELSE DateV(e[3])
      [] e[1] = "listlit" -> ListV([i \in 1..Len(e[2]) |-> ExprValue(e[2][i])])
      [] e[1] = "dictlit" ->
            DictV([i \in 1..Len(e[2]) |-> <<e[2][i][1], ExprValue(e[2][i][2])>>])

\* eval(doc_str): <<"ok", value>> or <<"raise", exception>>
PyEval(line) ==
    IF ~line.closed THEN <<"raise", "SyntaxError">>
    ELSE IF line.form = "dict"
    THEN LET e == <<"dictlit", line.items>>
         IN IF ExprRaises(e) # "" THEN <<"raise", ExprRaises(e)>>
            ELSE <<"ok", ExprValue(e)>>
    ELSE LET e == <<"listlit", line.items>>
         IN IF ExprRaises(e) # "" THEN <<"raise", ExprRaises(e)>>
            ELSE <<"ok", <<"set", ExprValue(e)[2]>>>>

\* doc_str.startswith("{")
StartsWithBrace(line) == line.form \in {"dict", "set"}

\* one pass of the loop body of restore_snapshot over a line:
\* <<"skip">>, <<"ok", value>> (appended) or <<"raise", exception>> (logged)
DecodeLine(line) ==
    IF StartsWithBrace(line) THEN PyEval(line) ELSE <<"skip", "">>

\* the decode loop: the documents appended, in file order
RECURSIVE ParsedDocuments(_)
ParsedDocuments(lines) ==
    IF lines = <<>> THEN <<>>
    ELSE LET r == DecodeLine(Head(lines))
         IN IF r[1] = "ok" THEN <<r[2]>> \o ParsedDocuments(Tail(lines))
            ELSE ParsedDocuments(Tail(lines))

\* the decode loop: one "Error parsing document" per line whose eval raised
RECURSIVE ParseErrors(_)
ParseErrors(lines) ==
    IF lines = <<>> THEN <<>>
    ELSE LET r == DecodeLine(Head(lines))
         IN IF r[1] = "raise" THEN <<"Error parsing document">> \o ParseErrors(Tail(lines))
            ELSE ParseErrors(Tail(lines))

(***************************************************************************)
(* The documents and lines of the model.                                   *)
(***************************************************************************)
DocPlain == DictV(<<<<"_id", IntV(1)>>, <<"tags", ListV(<<StrV(1), NoneV, BoolV(1)>>)>>>>)
DocNested == DictV(<<<<"_id", IntV(2)>>, <<"sub", DictV(<<<<"n", IntV(7)>>>>)>>>>)
DocOid == DictV(<<<<"_id", OidV(1)>>, <<"n", IntV(7)>>>>)
DocDate == DictV(<<<<"_id", IntV(3)>>, <<"at", DateV(1)>>>>)
Docs == {DocPlain, DocNested, DocOid, DocDate}

\* a set display such as {1, 2}: starts with "{" and evaluates to a set
SetLine == [form |-> "set", items |-> <<<<"lit", IntV(1)>>>>, closed |-> TRUE]
\* a blank line or text that does not start with "{"
TextLine == [form |-> "text", items |-> <<>>, closed |-> TRUE]
\* a document line cut short (the closing brace is missing)
Truncated(line) == [line EXCEPT !.closed = FALSE]

(***************************************************************************)
(* The environment: the MongoDB instance and the backup directory.         *)
(***************************************************************************)
DbNames == {"admin", "local", "Admin", "shop"}
CollNames == {"c1", "c2"}
Namespaces == DbNames \X CollNames

\* the collection file of a collection: f"{collection}.json"
CollectionFile(collection) == <<collection, ".json">>
\* f.endswith('.json')
EndsWithJson(f) == f[2] = ".json"
\* collection_file[:-5]
StripSuffix(f) == f[1]

\* datetime.now().strftime('%Y%m%d_%H%M%S'): the clock cut to whole seconds
SnapshotName(now) == now \div TicksPerSecond

Seconds == 0..(MaxClock \div TicksPerSecond)

\* the value of `_id` in a document
DocId(d) == d[2][CHOOSE i \in 1..Len(d[2]) : d[2][i][1] = "_id"][2]
SeqRange(s) == {s[i] : i \in 1..Len(s)}
Prefix(s, k) == SubSeq(s, 1, k)

NoCollection == [exists |-> FALSE, docs |-> <<>>]
Collection(ds) == [exists |-> TRUE, docs |-> ds]

VARIABLES
    client,          \* self.client: "none", or the client object, "open" or "closed"
    server,          \* the instance: namespace -> [exists, docs in natural order]
    snapDirs,        \* snapshot directories under the backup root
    dbDirs,          \* <<snapshot, database>> directories
    files,           \* <<snapshot, database, file name>> -> lines
    clock,           \* the wall clock, in half seconds
    pc,              \* the statement the process is at
    snapshot_name,   \* argument of restore_snapshot
    timestamp,       \* local of create_snapshot
    databases,       \* databases still to iterate
    db_name,         \* database of the current iteration
    collections,     \* collections (create) or collection files (restore) still to iterate
    collection_name, \* collection of the current iteration of restore
    documents,       \* local of restore_snapshot
    acquired,        \* connect() succeeded in the current invocation
    error,           \* the exception in flight, "" when none
    calls,           \* driver and filesystem calls made by the current invocation
    logged,          \* logging.error messages of the current invocation, in order
    outcome,         \* what the last finished invocation returned or raised
    entry,           \* the instance and the disk as they were when the invocation began
    ninv,            \* invocations started
    nenv,            \* environment writes made
    caller,          \* where the caller of the operations is: main() of either file
    until,           \* polls left until the scheduled job is due
    argv,            \* the parsed command line: action, and --snapshot when given
    stdout,          \* what the command line has printed
    rootExists,      \* the backup root exists
    rootFiles,       \* entries of the backup root that are not directories
    listed           \* what list_snapshots last returned

vars == <<client, server, snapDirs, dbDirs, files, clock, pc, snapshot_name, timestamp,
          databases, db_name, collections, collection_name, documents, acquired, error,
          calls, logged, outcome, entry, ninv, nenv, caller, until, argv, stdout,
          rootExists, rootFiles, listed>>

\* the state of the callers and of list_snapshots, which the two operations
\* neither read nor write
aux == <<caller, until, argv, stdout, rootExists, rootFiles, listed>>

env == <<server, snapDirs, dbDirs, files, clock, nenv>>
locals == <<snapshot_name, timestamp, databases, db_name, collections, collection_name,
            documents>>

\* db.list_database_names() / db.list_collection_names()
ListDatabaseNames == {ns[1] : ns \in {n \in Namespaces : server[n].exists}}
ListCollectionNames(db) == {c \in CollNames : server[<<db, c>>].exists}

\* os.listdir(snapshot_path) filtered by isdir; os.listdir(db_path) filtered by suffix
SnapshotDatabases(name) == {d \in DbNames : <<name, d>> \in dbDirs}
CollectionFiles(name, db) ==
    {p[3] : p \in {q \in DOMAIN files : q[1] = name /\ q[2] = db /\ EndsWithJson(q[3])}}

\* the value of `entry` while no invocation is in progress
NoEntry == [server |-> [ns \in Namespaces |-> NoCollection], snapDirs |-> {},
            dbDirs |-> {}, files |-> <<>>]

Call(kind, snap, db, coll) == <<kind, snap, db, coll>>

(***************************************************************************)
(* Initial state: the manager was constructed (__init__), the backup root  *)
(* exists, and it may hold one snapshot of an earlier run.                  *)
(***************************************************************************)
LineAlphabet == {PyStr(DocPlain), Truncated(PyStr(DocNested)), SetLine, TextLine}
BoundedLines == UNION {[1..n -> LineAlphabet] : n \in 0..MaxLines}

InitServer ==
    [ns \in Namespaces |->
        CASE ns = <<"admin", "c1">> -> Collection(<<DocPlain>>)
          [] ns = <<"local", "c1">> -> Collection(<<DocPlain>>)
          [] ns = <<"shop", "c1">> -> Collection(<<DocNested, DocOid>>)
          [] OTHER -> NoCollection]

\* what is the same in every initial state
InitProcess ==
    /\ client = "none"
    /\ server = InitServer
    /\ clock = 0
    /\ pc = "idle"
    /\ snapshot_name = 0
    /\ timestamp = 0
    /\ databases = {}
    /\ db_name = ""
    /\ collections = {}
    /\ collection_name = ""
    /\ documents = <<>>
    /\ acquired = FALSE
    /\ error = ""
    /\ calls = {}
    /\ logged = <<>>
    /\ outcome = [op |-> "", raised |-> ""]
    /\ entry = NoEntry
    /\ ninv = 0
    /\ nenv = 0

NoArgs == [action |-> "", given |-> FALSE, snapshot |-> 0]

\* the operations are invoked by a caller that is not modelled further: the
\* manager was constructed (lines 23-30), so the backup root exists
InitCaller ==
    /\ caller = "none"
    /\ until = 0
    /\ argv = NoArgs
    /\ stdout = <<>>
    /\ rootExists = TRUE
    /\ rootFiles = {}
    /\ listed = <<>>

\* the backup root is empty: every file the run reads was written by the run
Init ==
    /\ InitProcess
    /\ InitCaller
    /\ snapDirs = {}
    /\ dbDirs = {}
    /\ files = <<>>

\* the backup root holds snapshot 0 with one collection file of any content
InitStored ==
    /\ InitProcess
    /\ InitCaller
    /\ snapDirs = {0}
    /\ dbDirs = {<<0, "shop">>}
    /\ \E ls \in BoundedLines : files = (<<0, "shop", CollectionFile("c1")>> :> ls)

(***************************************************************************)
(* Helpers shared by both operations.                                      *)
(***************************************************************************)
\* os.path.exists() that finds every name
SnapshotExistsAlways(name) == TRUE

\* os.path.exists(snapshot_path)
SnapshotExists(name) == name \in snapDirs

\* a test that finds no directory
PathExistsNever(dirs, d) == FALSE

\* os.path.exists(backup_path), os.path.exists(db_backup_path)
PathExists(dirs, d) == d \in dirs

\* a restore into one fixed database, whatever subdirectory the file is in
TargetFixedDatabase(db, f) == <<"admin", f[1]>>

\* db[collection_name] with db = self.client[db_name], lines 128, 135, 141:
\* the collection a collection file is restored into
Target(db, f) == <<db, StripSuffix(f)>>

\* `if not self.client`: the attribute is None until connect() assigns it
NeedsConnect(c) == c = "none"

\* a finally block that closes nothing
CloseClientNever(c) == c

\* the finally block: `if self.client: self.client.close()`
CloseClient(c) == IF c # "none" THEN "closed" ELSE c

\* `db_name not in ['admin', 'local']`
IsSystemDatabase(db) == db \in {"admin", "local"}

\* the lines create_snapshot writes for the documents of a collection
EncodeLines(data) == [i \in 1..Len(data) |-> PyStr(data[i])]

\* a delete_many that removes nothing
DeleteManyKeeps(coll) == coll

\* delete_many({}) removes every document; it creates no collection
DeleteMany(coll) == IF coll.exists THEN Collection(<<>>) ELSE coll

\* insert_many validates that every element is a mapping before sending any
AllDocuments(ds) == \A i \in 1..Len(ds) : ds[i][1] = "dict"

\* how many leading documents an ordered insert stores before a duplicate _id
RECURSIVE InsertableLen(_, _)
InsertableLen(ids, ds) ==
    IF ds = <<>> \/ DocId(Head(ds)) \in ids THEN 0
    ELSE 1 + InsertableLen(ids \cup {DocId(Head(ds))}, Tail(ds))

\* the collection after the first k documents were stored
Inserted(coll, ds, k) ==
    IF k = 0 THEN coll ELSE Collection(coll.docs \o Prefix(ds, k))

CollectionIds(coll) == {DocId(coll.docs[i]) : i \in 1..Len(coll.docs)}

\* connect(): MongoClient(uri) then server_info(); on failure it logs and
\* control goes to failpc
ConnectTo(self, okpc, failpc) ==
    \/ /\ client' = "open"
       /\ acquired' = TRUE
       /\ error' = ""
       /\ logged' = <<>>
       /\ pc' = okpc
    \/ \* MongoClient(uri) raises: self.client keeps its old value
       /\ client' = self
       /\ acquired' = FALSE
       /\ error' = "ConfigurationError"
       /\ logged' = <<"Failed to connect to MongoDB">>
       /\ pc' = failpc
    \/ \* server_info() raises: the new client object stays in self.client
       /\ client' = "open"
       /\ acquired' = FALSE
       /\ error' = "ServerSelectionTimeoutError"
       /\ logged' = <<"Failed to connect to MongoDB">>
       /\ pc' = failpc

\* a connect() whose except block logs and does not raise
ConnectSwallows(self, okpc, failpc) == ConnectTo(self, okpc, okpc)

\* connect(), lines 32-41: the except block re-raises into the caller's handler
Connect(self, okpc, failpc) == ConnectTo(self, okpc, failpc)

\* entry of an operation: `if not self.client: self.connect()`.  The call is
\* made on the manager `self`: the one the scheduler keeps, or the one a new
\* command-line process has just constructed (self.client = None)
Enter(self, okpc, failpc) ==
    /\ pc = "idle"
    /\ calls' = {}
    /\ entry' = [server |-> server, snapDirs |-> snapDirs, dbDirs |-> dbDirs,
                 files |-> files]
    /\ IF NeedsConnect(self)
       THEN Connect(self, okpc, failpc)
       ELSE /\ client' = self
            /\ acquired' = FALSE
            /\ error' = ""
            /\ logged' = <<>>
            /\ pc' = okpc

\* an invocation, counted against the number the model explores
Begin(self, okpc, failpc) ==
    /\ ninv < MaxInvocations
    /\ ninv' = ninv + 1
    /\ Enter(self, okpc, failpc)

\* MongoDBSnapshot(): the managers a caller can invoke the operation on
Managers == {client, "none"}

\* a call on the client object; a closed client either refuses the call (the
\* failing branch of the caller) or reopens itself, depending on the driver
Used(c) == "open"

\* an except block that logs and does not raise
Swallowed(e) == ""

\* the bare `raise` of the except block: the exception in flight leaves the call
Reraised(e) == e

\* the finally block of both operations, and the return or re-raise after it
Finally(op) ==
    /\ client' = CloseClient(client)
    /\ outcome' = [op |-> op, raised |-> Reraised(error)]
    /\ error' = ""
    /\ pc' = "returned"
    /\ UNCHANGED <<env, locals, acquired, calls, logged, entry, ninv, aux>>

(***************************************************************************)
(* create_snapshot                                                         *)
(***************************************************************************)
CreateBegin ==
    /\ \E self \in Managers : Begin(self, "c_list", "c_except")
    /\ UNCHANGED <<env, locals, outcome>>
    /\ UNCHANGED aux

\* line 50
CreateListDatabases ==
    /\ pc = "c_list"
    /\ calls' = calls \cup {Call("list_database_names", -1, "", "")}
    /\ \/ /\ databases' = ListDatabaseNames
          /\ client' = Used(client)
          /\ pc' = "c_mkdir"
          /\ UNCHANGED error
       \/ /\ error' = "PyMongoError"
          /\ pc' = "c_except"
          /\ UNCHANGED <<client, databases>>
    /\ UNCHANGED <<env, snapshot_name, timestamp, db_name, collections, collection_name,
                   documents, acquired, logged, outcome, entry, ninv>>
    /\ UNCHANGED aux

\* lines 53-57
CreateSnapshotDir ==
    /\ pc = "c_mkdir"
    /\ timestamp' = SnapshotName(clock)
    /\ IF PathExists(snapDirs, SnapshotName(clock))
       THEN /\ pc' = "c_dbs"
            /\ UNCHANGED <<snapDirs, calls, error>>
       ELSE /\ calls' = calls \cup {Call("makedirs", SnapshotName(clock), "", "")}
            /\ \/ /\ snapDirs' = snapDirs \cup {SnapshotName(clock)}
                  /\ pc' = "c_dbs"
                  /\ UNCHANGED error
               \/ /\ error' = "OSError"
                  /\ pc' = "c_except"
                  /\ UNCHANGED snapDirs
    /\ UNCHANGED <<client, server, dbDirs, files, clock, nenv, snapshot_name, databases,
                   db_name, collections, collection_name, documents, acquired, logged,
                   outcome, entry, ninv>>
    /\ UNCHANGED aux

\* lines 59-70: the next database, its directory and its collection names
CreateNextDatabase ==
    /\ pc = "c_dbs"
    /\ IF databases = {}
       THEN /\ pc' = "c_done"
            /\ UNCHANGED <<client, dbDirs, databases, db_name, collections, calls, error>>
       ELSE \E db \in databases :
            /\ databases' = databases \ {db}
            /\ IF IsSystemDatabase(db)
               THEN /\ pc' = "c_dbs"
                    /\ UNCHANGED <<client, dbDirs, db_name, collections, calls, error>>
               ELSE LET made == IF PathExists(dbDirs, <<timestamp, db>>) THEN {}
                                ELSE {Call("makedirs", timestamp, db, "")}
                    IN /\ db_name' = db
                       /\ \/ /\ dbDirs' = dbDirs \cup {<<timestamp, db>>}
                             /\ calls' = calls \cup made
                                           \cup {Call("list_collection_names", -1, db, "")}
                             /\ collections' = ListCollectionNames(db)
                             /\ client' = Used(client)
                             /\ pc' = "c_colls"
                             /\ UNCHANGED error
                          \/ /\ made # {}
                             /\ calls' = calls \cup made
                             /\ error' = "OSError"
                             /\ pc' = "c_except"
                             /\ UNCHANGED <<client, dbDirs, collections>>
                          \/ /\ dbDirs' = dbDirs \cup {<<timestamp, db>>}
                             /\ calls' = calls \cup made
                                           \cup {Call("list_collection_names", -1, db, "")}
                             /\ error' = "PyMongoError"
                             /\ pc' = "c_except"
                             /\ UNCHANGED <<client, collections>>
    /\ UNCHANGED <<server, snapDirs, files, clock, nenv, snapshot_name, timestamp,
                   collection_name, documents, acquired, logged, outcome, entry, ninv>>
    /\ UNCHANGED aux

\* lines 72-82: fetch the next collection and write its file
CreateExport ==
    /\ pc = "c_colls"
    /\ IF collections = {}
       THEN /\ pc' = "c_dbs"
            /\ UNCHANGED <<client, files, collections, calls, error>>
       ELSE \E c \in collections :
            LET data == server[<<db_name, c>>].docs
                path == <<timestamp, db_name, CollectionFile(c)>>
                find == Call("find", -1, db_name, c)
                write == Call("write", timestamp, db_name, c)
            IN /\ collections' = collections \ {c}
               /\ \/ /\ files' = (path :> EncodeLines(data)) @@ files
                     /\ calls' = calls \cup {find, write}
                     /\ client' = Used(client)
                     /\ pc' = "c_colls"
                     /\ UNCHANGED error
                  \/ \* find() raises
                     /\ calls' = calls \cup {find}
                     /\ error' = "PyMongoError"
                     /\ pc' = "c_except"
                     /\ UNCHANGED <<client, files>>
                  \/ \* open() raises
                     /\ calls' = calls \cup {find, write}
                     /\ client' = Used(client)
                     /\ error' = "OSError"
                     /\ pc' = "c_except"
                     /\ UNCHANGED files
                  \/ \* a write raises after k lines; open(..., 'w') emptied the file
                     \E k \in 0..(Len(data) - 1) :
                     /\ files' = (path :> Prefix(EncodeLines(data), k)) @@ files
                     /\ calls' = calls \cup {find, write}
                     /\ client' = Used(client)
                     /\ error' = "OSError"
                     /\ pc' = "c_except"
    /\ UNCHANGED <<server, snapDirs, dbDirs, clock, nenv, snapshot_name, timestamp,
                   databases, db_name, collection_name, documents, acquired, logged,
                   outcome, entry, ninv>>
    /\ UNCHANGED aux

\* line 84
CreateDone ==
    /\ pc = "c_done"
    /\ pc' = "c_finally"
    /\ UNCHANGED <<client, env, locals, acquired, error, calls, logged, outcome, entry, ninv>>
    /\ UNCHANGED aux

\* lines 86-88
CreateExcept ==
    /\ pc = "c_except"
    /\ logged' = Append(logged, "Error creating snapshot")
    /\ pc' = "c_finally"
    /\ UNCHANGED <<client, env, locals, acquired, error, calls, outcome, entry, ninv>>
    /\ UNCHANGED aux

\* lines 89-91
CreateFinally ==
    /\ pc = "c_finally"
    /\ Finally("create")

(***************************************************************************)
(* restore_snapshot                                                        *)
(***************************************************************************)
RestoreBegin ==
    /\ \E name \in Seconds : snapshot_name' = name
    /\ \E self \in Managers : Begin(self, "r_check", "r_except")
    /\ UNCHANGED <<env, timestamp, databases, db_name, collections, collection_name,
                   documents, outcome>>
    /\ UNCHANGED aux

\* lines 115-121
RestoreValidate ==
    /\ pc = "r_check"
    /\ IF ~SnapshotExists(snapshot_name)
       THEN /\ error' = "ValueError"
            /\ pc' = "r_except"
            /\ UNCHANGED databases
       ELSE \/ /\ databases' = SnapshotDatabases(snapshot_name)
               /\ pc' = "r_dbs"
               /\ UNCHANGED error
            \/ /\ error' = "OSError"
               /\ pc' = "r_except"
               /\ UNCHANGED databases
    /\ UNCHANGED <<client, env, snapshot_name, timestamp, db_name, collections,
                   collection_name, documents, acquired, calls, logged, outcome, entry, ninv>>
    /\ UNCHANGED aux

\* lines 123-132
RestoreNextDatabase ==
    /\ pc = "r_dbs"
    /\ IF databases = {}
       THEN /\ pc' = "r_done"
            /\ UNCHANGED <<databases, db_name, collections, error>>
       ELSE \E db \in databases :
            /\ databases' = databases \ {db}
            /\ db_name' = db
            /\ \/ /\ collections' = CollectionFiles(snapshot_name, db)
                  /\ pc' = "r_colls"
                  /\ UNCHANGED error
               \/ /\ error' = "OSError"
                  /\ pc' = "r_except"
                  /\ UNCHANGED collections
    /\ UNCHANGED <<client, env, snapshot_name, timestamp, collection_name, documents,
                   acquired, calls, logged, outcome, entry, ninv>>
    /\ UNCHANGED aux

\* lines 134-141: the next collection file; clear its collection
RestoreDelete ==
    /\ pc = "r_colls"
    /\ IF collections = {}
       THEN /\ pc' = "r_dbs"
            /\ UNCHANGED <<client, server, collections, collection_name, calls, error>>
       ELSE \E f \in collections :
            LET ns == Target(db_name, f)
            IN /\ collections' = collections \ {f}
               /\ collection_name' = StripSuffix(f)
               /\ calls' = calls \cup {Call("delete_many", -1, ns[1], ns[2])}
               /\ \/ /\ server' = [server EXCEPT ![ns] = DeleteMany(@)]
                     /\ client' = Used(client)
                     /\ pc' = "r_read"
                     /\ UNCHANGED error
                  \/ \* the call fails before the server acts
                     /\ error' = "PyMongoError"
                     /\ pc' = "r_except"
                     /\ UNCHANGED <<client, server>>
                  \/ \* the server acts and the reply is lost
                     /\ server' = [server EXCEPT ![ns] = DeleteMany(@)]
                     /\ client' = Used(client)
                     /\ error' = "PyMongoError"
                     /\ pc' = "r_except"
    /\ UNCHANGED <<snapDirs, dbDirs, files, clock, nenv, snapshot_name, timestamp,
                   databases, db_name, documents, acquired, logged, outcome, entry, ninv>>
    /\ UNCHANGED aux

\* lines 144-155: read the file and decode it line by line
RestoreRead ==
    /\ pc = "r_read"
    /\ LET path == <<snapshot_name, db_name, CollectionFile(collection_name)>>
       IN \/ /\ documents' = ParsedDocuments(files[path])
             /\ logged' = logged \o ParseErrors(files[path])
             /\ pc' = "r_insert"
             /\ UNCHANGED error
          \/ /\ error' = "OSError"
             /\ pc' = "r_except"
             /\ UNCHANGED <<documents, logged>>
    /\ UNCHANGED <<client, env, snapshot_name, timestamp, databases, db_name, collections,
                   collection_name, acquired, calls, outcome, entry, ninv>>
    /\ UNCHANGED aux

\* lines 157-159
RestoreInsert ==
    /\ pc = "r_insert"
    /\ IF documents = <<>>
       THEN /\ pc' = "r_colls"
            /\ UNCHANGED <<client, server, calls, error>>
       ELSE LET ns == Target(db_name, CollectionFile(collection_name))
                n == Len(documents)
                m == InsertableLen(CollectionIds(server[ns]), documents)
            IN /\ calls' = calls \cup {Call("insert_many", -1, ns[1], ns[2])}
               /\ IF ~AllDocuments(documents)
                  THEN /\ error' = "TypeError"
                       /\ pc' = "r_except"
                       /\ UNCHANGED <<client, server>>
                  ELSE \/ /\ m = n
                          /\ server' = [server EXCEPT ![ns] = Inserted(@, documents, n)]
                          /\ client' = Used(client)
                          /\ pc' = "r_colls"
                          /\ UNCHANGED error
                       \/ \* a duplicate _id stops an ordered insert where it stands
                          /\ m < n
                          /\ server' = [server EXCEPT ![ns] = Inserted(@, documents, m)]
                          /\ client' = Used(client)
                          /\ error' = "BulkWriteError"
                          /\ pc' = "r_except"
                       \/ \* the connection fails after k documents were stored
                          \E k \in 0..m :
                          /\ server' = [server EXCEPT ![ns] = Inserted(@, documents, k)]
                          /\ client' = IF k = 0 THEN client ELSE Used(client)
                          /\ error' = "PyMongoError"
                          /\ pc' = "r_except"
    /\ UNCHANGED <<snapDirs, dbDirs, files, clock, nenv, locals, acquired, logged, outcome,
                   entry, ninv>>
    /\ UNCHANGED aux

\* line 161
RestoreDone ==
    /\ pc = "r_done"
    /\ pc' = "r_finally"
    /\ UNCHANGED <<client, env, locals, acquired, error, calls, logged, outcome, entry, ninv>>
    /\ UNCHANGED aux

\* lines 163-165
RestoreExcept ==
    /\ pc = "r_except"
    /\ logged' = Append(logged, "Error restoring snapshot")
    /\ pc' = "r_finally"
    /\ UNCHANGED <<client, env, locals, acquired, error, calls, outcome, entry, ninv>>
    /\ UNCHANGED aux

\* lines 166-168
RestoreFinally ==
    /\ pc = "r_finally"
    /\ Finally("restore")

(***************************************************************************)
(* The caller and the environment between invocations.                     *)
(***************************************************************************)
\* the caller (the scheduler loop or the command line) takes the result; the
\* locals of the finished call are gone
CallerResumes ==
    /\ pc = "returned"
    /\ pc' = "idle"
    /\ snapshot_name' = 0
    /\ timestamp' = 0
    /\ acquired' = FALSE
    /\ calls' = {}
    /\ logged' = <<>>
    /\ outcome' = [op |-> "", raised |-> ""]
    /\ entry' = NoEntry
    /\ databases' = {}
    /\ collections' = {}
    /\ documents' = <<>>
    /\ db_name' = ""
    /\ collection_name' = ""
    /\ UNCHANGED <<client, env, error, ninv>>
    /\ UNCHANGED aux

\* the namespaces other clients write to, and what they insert
EnvNamespaces == {<<"Admin", "c1">>, <<"shop", "c1">>, <<"shop", "c2">>}
EnvDocs == {DocDate}

\* another client of the instance inserts a document
EnvInsert ==
    /\ pc = "idle"
    /\ nenv < MaxEnvWrites
    /\ \E ns \in EnvNamespaces, d \in EnvDocs :
          /\ DocId(d) \notin CollectionIds(server[ns])
          /\ server' = [server EXCEPT ![ns] = Collection(@.docs \o <<d>>)]
    /\ nenv' = nenv + 1
    /\ UNCHANGED <<client, snapDirs, dbDirs, files, clock, pc, locals, acquired, error,
                   calls, logged, outcome, entry, ninv>>
    /\ UNCHANGED aux

\* another client drops a collection
EnvDrop ==
    /\ pc = "idle"
    /\ nenv < MaxEnvWrites
    /\ \E ns \in EnvNamespaces :
          /\ server[ns].exists
          /\ server' = [server EXCEPT ![ns] = NoCollection]
    /\ nenv' = nenv + 1
    /\ UNCHANGED <<client, snapDirs, dbDirs, files, clock, pc, locals, acquired, error,
                   calls, logged, outcome, entry, ninv>>
    /\ UNCHANGED aux

\* time passes
Tick ==
    /\ pc = "idle"
    /\ clock < MaxClock
    /\ clock' = clock + 1
    /\ UNCHANGED <<client, server, snapDirs, dbDirs, files, nenv, pc, locals, acquired,
                   error, calls, logged, outcome, entry, ninv>>
    /\ UNCHANGED aux

Next ==
    \/ CreateBegin \/ CreateListDatabases \/ CreateSnapshotDir \/ CreateNextDatabase
    \/ CreateExport \/ CreateDone \/ CreateExcept \/ CreateFinally
    \/ RestoreBegin \/ RestoreValidate \/ RestoreNextDatabase \/ RestoreDelete
    \/ RestoreRead \/ RestoreInsert \/ RestoreDone \/ RestoreExcept \/ RestoreFinally
    \/ CallerResumes \/ EnvInsert \/ EnvDrop \/ Tick

Spec == Init /\ [][Next]_vars

\* the operations alone, on a backup root that already holds a snapshot
NextStored ==
    \/ CreateBegin \/ CreateListDatabases \/ CreateSnapshotDir \/ CreateNextDatabase
    \/ CreateExport \/ CreateDone \/ CreateExcept \/ CreateFinally
    \/ RestoreBegin \/ RestoreValidate \/ RestoreNextDatabase \/ RestoreDelete
    \/ RestoreRead \/ RestoreInsert \/ RestoreDone \/ RestoreExcept \/ RestoreFinally
    \/ CallerResumes

SpecStored == InitStored /\ [][NextStored]_vars

(***************************************************************************)
(* main() of mongodb_snapshot.py: the scheduler loop, lines 170-184.        *)
(* One manager is constructed once and create_snapshot is registered to run *)
(* once a day; the loop polls the schedule.                                 *)
(***************************************************************************)
\* time.sleep(60) of the polling step and time.sleep(300) of the handler
PollSeconds == 60
CooldownSeconds == 300
\* polls between two runs of the daily job
PollsPerDay == 3

\* the clock after a sleep; the clock of the model stops at its horizon
Later(now, seconds) ==
    IF now + seconds * TicksPerSecond > MaxClock THEN MaxClock
    ELSE now + seconds * TicksPerSecond

\* the polls left until the job is due, after a sleep
Remaining(n, seconds) ==
    IF n > seconds \div PollSeconds THEN n - seconds \div PollSeconds ELSE 0

\* a handler that catches the errors of the disk only
CatchesOSError(e) == e = "OSError"

\* `except Exception as e`: every error a job or the poll raises is one
Catches(e) == TRUE

\* the process starts at any time of the day with the job registered
InitMain ==
    /\ InitProcess
    /\ snapDirs = {}
    /\ dbDirs = {}
    /\ files = <<>>
    /\ caller = "poll"
    /\ until \in 0..PollsPerDay
    /\ argv = NoArgs
    /\ stdout = <<>>
    /\ rootExists = TRUE
    /\ rootFiles = {}
    /\ listed = <<>>

\* line 180, schedule.run_pending(): runs the job when it is due, on the one
\* manager main() constructed.  `logged` holds the messages of one pass of
\* the loop
RunPending ==
    /\ caller = "poll"
    /\ \/ /\ until > 0
          /\ caller' = "sleep"
          /\ logged' = <<>>
          /\ UNCHANGED <<client, pc, acquired, error, calls, outcome, entry>>
       \/ /\ until = 0
          /\ Enter(client, "c_list", "c_except")
          /\ caller' = "job"
          /\ UNCHANGED outcome
       \/ \* the poll itself raises
          /\ outcome' = [op |-> "run_pending", raised |-> "ScheduleError"]
          /\ caller' = IF Catches("ScheduleError") THEN "except" ELSE "crashed"
          /\ logged' = <<>>
          /\ UNCHANGED <<client, pc, acquired, error, calls, entry>>
    /\ UNCHANGED <<env, locals, ninv, until, argv, stdout, rootExists, rootFiles, listed>>

\* line 180: the job returned, and is scheduled for the next day, or raised
\* out of run_pending, and stays due
JobReturns ==
    /\ caller = "job"
    /\ pc = "returned"
    /\ pc' = "idle"
    /\ IF outcome.raised = ""
       THEN /\ until' = PollsPerDay
            /\ caller' = "sleep"
       ELSE /\ until' = until
            /\ caller' = IF Catches(outcome.raised) THEN "except" ELSE "crashed"
    /\ snapshot_name' = 0
    /\ timestamp' = 0
    /\ acquired' = FALSE
    /\ calls' = {}
    /\ entry' = NoEntry
    /\ databases' = {}
    /\ collections' = {}
    /\ documents' = <<>>
    /\ db_name' = ""
    /\ collection_name' = ""
    /\ UNCHANGED <<client, env, error, logged, outcome, ninv, argv, stdout, rootExists,
                   rootFiles, listed>>

\* line 181
Sleep ==
    /\ caller = "sleep"
    /\ clock' = Later(clock, PollSeconds)
    /\ until' = Remaining(until, PollSeconds)
    /\ caller' = "poll"
    /\ UNCHANGED <<client, server, snapDirs, dbDirs, files, nenv, pc, locals, acquired,
                   error, calls, logged, outcome, entry, ninv, argv, stdout, rootExists,
                   rootFiles, listed>>

\* lines 182-183
MainExcept ==
    /\ caller = "except"
    /\ logged' = Append(logged, "Error in main loop")
    /\ caller' = "cooldown"
    /\ UNCHANGED <<client, env, pc, locals, acquired, error, calls, outcome, entry, ninv,
                   until, argv, stdout, rootExists, rootFiles, listed>>

\* line 184, then back to the head of the loop
Cooldown ==
    /\ caller = "cooldown"
    /\ clock' = Later(clock, CooldownSeconds)
    /\ until' = Remaining(until, CooldownSeconds)
    /\ caller' = "poll"
    /\ UNCHANGED <<client, server, snapDirs, dbDirs, files, nenv, pc, locals, acquired,
                   error, calls, logged, outcome, entry, ninv, argv, stdout, rootExists,
                   rootFiles, listed>>

NextMain ==
    \/ RunPending \/ JobReturns \/ Sleep \/ MainExcept \/ Cooldown
    \/ CreateListDatabases \/ CreateSnapshotDir \/ CreateNextDatabase
    \/ CreateExport \/ CreateDone \/ CreateExcept \/ CreateFinally

\* a poll that raises nothing itself
PollRuns == RunPending /\ caller' \in {"sleep", "job"}

\* the process is single-threaded and keeps running: the step it is at is
\* taken; and an error of the poll itself is transient: the poll does not
\* raise for ever
SpecMain == InitMain /\ [][NextMain]_vars /\ WF_vars(NextMain) /\ SF_vars(PollRuns)

(***************************************************************************)
(* list_snapshots, lines 93-107.                                            *)
(***************************************************************************)
\* strftime('%Y%m%d_%H%M%S') of a second: digits of fixed width, zero padded
FormatName(second) == <<second \div 10, second % 10>>

\* a < b on str: lexicographic
RECURSIVE StrLess(_, _)
StrLess(a, b) ==
    IF a = <<>> THEN b # <<>>
    ELSE IF b = <<>> THEN FALSE
    ELSE IF Head(a) = Head(b) THEN StrLess(Tail(a), Tail(b))
    ELSE Head(a) < Head(b)

\* sorted(snapshots, reverse=True)
RECURSIVE SortedReverse(_)
SortedReverse(names) ==
    IF names = {} THEN <<>>
    ELSE LET m == CHOOSE x \in names : \A y \in names \ {x} : StrLess(y, x)
         IN <<m>> \o SortedReverse(names \ {m})

\* os.listdir(self.backup_dir): the entries of the backup root, each a
\* directory or not
RootEntries ==
    {<<FormatName(d), "dir">> : d \in snapDirs} \cup {<<FormatName(f), "file">> : f \in rootFiles}

\* a test that takes every entry for a directory
IsDirAlways(e) == TRUE

\* os.path.isdir(os.path.join(self.backup_dir, snapshot_dir))
IsDir(e) == e[2] = "dir"

\* lines 96-104: the value list_snapshots returns when nothing raises
ListSnapshotsResult ==
    IF ~rootExists THEN <<>>
    ELSE SortedReverse({e[1] : e \in {x \in RootEntries : IsDir(x)}})

\* the names of the directories and of the other entries a backup root may hold
ListDirNames == {0, 1, 9, 10, 11}
ListFileNames == {2, 12}

\* any backup root, or none: list_snapshots reads nothing else
InitList ==
    /\ InitProcess
    /\ caller = "none"
    /\ until = 0
    /\ argv = NoArgs
    /\ stdout = <<>>
    /\ listed = <<>>
    /\ rootExists \in BOOLEAN
    /\ snapDirs \in IF rootExists THEN SUBSET ListDirNames ELSE {{}}
    /\ rootFiles \in IF rootExists THEN SUBSET ListFileNames ELSE {{}}
    /\ dbDirs = {<<d, "shop">> : d \in snapDirs}
    /\ files = <<>>

\* list_snapshots(): returns the list, or logs and re-raises what listdir raised
ListSnapshots ==
    /\ pc = "idle"
    /\ pc' = "returned"
    /\ \/ /\ listed' = ListSnapshotsResult
          /\ outcome' = [op |-> "list", raised |-> ""]
          /\ logged' = <<>>
       \/ /\ rootExists
          /\ listed' = listed
          /\ outcome' = [op |-> "list", raised |-> "OSError"]
          /\ logged' = <<"Error listing snapshots">>
    /\ UNCHANGED <<client, env, locals, acquired, error, calls, entry, ninv, caller, until,
                   argv, stdout, rootExists, rootFiles>>

NextList == ListSnapshots \/ CallerResumes

SpecList == InitList /\ [][NextList]_vars

(***************************************************************************)
(* main() of mongodb_cli.py: one process per command line.                  *)
(***************************************************************************)
\* the command lines argparse accepts; `given` is the truth value of
\* args.snapshot (false for no --snapshot and for an empty one)
CommandLines ==
    {[action |-> a, given |-> FALSE, snapshot |-> 0] : a \in {"create", "restore", "list"}}
    \cup {[action |-> a, given |-> TRUE, snapshot |-> n] :
             a \in {"create", "restore", "list"}, n \in Seconds}

\* print(...)
Line(text, arg) == <<text, arg>>
RestoreNeedsName == Line("Error: Snapshot name is required for restore action", <<>>)
PrintedList(names) ==
    IF names # <<>>
    THEN <<Line("Available snapshots:", <<>>)>> \o [i \in 1..Len(names) |-> Line("- ", names[i])]
    ELSE <<Line("No snapshots found", <<>>)>>

\* no process runs yet; the backup root may not exist
InitCli ==
    /\ InitProcess
    /\ snapDirs = {}
    /\ dbDirs = {}
    /\ files = <<>>
    /\ caller = "none"
    /\ until = 0
    /\ argv = NoArgs
    /\ stdout = <<>>
    /\ rootExists \in BOOLEAN
    /\ rootFiles = {}
    /\ listed = <<>>

\* line 10: a process starts and parses its command line
CliStart ==
    /\ caller = "none"
    /\ pc = "idle"
    /\ \E a \in CommandLines : argv' = a
    /\ caller' = "cli_init"
    /\ stdout' = <<>>
    /\ entry' = [server |-> server, snapDirs |-> snapDirs, dbDirs |-> dbDirs,
                 files |-> files]
    /\ UNCHANGED <<client, env, pc, locals, acquired, error, calls, logged, outcome, ninv,
                   until, rootExists, rootFiles, listed>>

\* line 11, MongoDBSnapshot(): lines 23-30 of mongodb_snapshot.py
CliConstruct ==
    /\ caller = "cli_init"
    /\ client' = "none"
    /\ IF rootExists
       THEN /\ caller' = "cli_dispatch"
            /\ UNCHANGED <<rootExists, outcome>>
       ELSE \/ /\ rootExists' = TRUE
               /\ caller' = "cli_dispatch"
               /\ UNCHANGED outcome
            \/ \* os.makedirs raises and nothing catches it
               /\ outcome' = [op |-> "construct", raised |-> "OSError"]
               /\ caller' = "cli_traceback"
               /\ UNCHANGED rootExists
    /\ UNCHANGED <<env, pc, locals, acquired, error, calls, logged, entry, ninv, until,
                   argv, stdout, rootFiles, listed>>

\* lines 13-14
CliCreate ==
    /\ caller = "cli_dispatch"
    /\ argv.action = "create"
    /\ Begin(client, "c_list", "c_except")
    /\ caller' = "cli_op"
    /\ UNCHANGED <<env, locals, outcome, until, argv, stdout, rootExists, rootFiles, listed>>

\* lines 15-19
CliRestore ==
    /\ caller = "cli_dispatch"
    /\ argv.action = "restore"
    /\ IF ~argv.given
       THEN /\ stdout' = Append(stdout, RestoreNeedsName)
            /\ caller' = "cli_exit"
            /\ UNCHANGED <<client, pc, snapshot_name, acquired, error, calls, logged,
                           entry, ninv>>
       ELSE /\ snapshot_name' = argv.snapshot
            /\ Begin(client, "r_check", "r_except")
            /\ caller' = "cli_op"
            /\ UNCHANGED stdout
    /\ UNCHANGED <<env, timestamp, databases, db_name, collections, collection_name,
                   documents, outcome, until, argv, rootExists, rootFiles, listed>>

\* lines 20-26
CliList ==
    /\ caller = "cli_dispatch"
    /\ argv.action = "list"
    /\ \/ /\ listed' = ListSnapshotsResult
          /\ stdout' = stdout \o PrintedList(ListSnapshotsResult)
          /\ caller' = "cli_exit"
          /\ UNCHANGED <<logged, outcome>>
       \/ /\ logged' = <<"Error listing snapshots">>
          /\ outcome' = [op |-> "list", raised |-> "OSError"]
          /\ caller' = "cli_traceback"
          /\ UNCHANGED <<listed, stdout>>
    /\ UNCHANGED <<client, env, pc, locals, acquired, error, calls, entry, ninv, until,
                   argv, rootExists, rootFiles>>

\* lines 14 and 19: the operation returned, or raised and nothing catches it
CliOperationReturns ==
    /\ caller = "cli_op"
    /\ pc = "returned"
    /\ pc' = "idle"
    /\ caller' = IF outcome.raised = "" THEN "cli_exit" ELSE "cli_traceback"
    /\ snapshot_name' = 0
    /\ timestamp' = 0
    /\ databases' = {}
    /\ collections' = {}
    /\ documents' = <<>>
    /\ db_name' = ""
    /\ collection_name' = ""
    /\ UNCHANGED <<client, env, acquired, error, calls, logged, outcome, entry, ninv,
                   until, argv, stdout, rootExists, rootFiles, listed>>

\* the process is gone, and with it its manager
CliProcessEnds ==
    /\ caller \in {"cli_exit", "cli_traceback"}
    /\ caller' = "none"
    /\ client' = "none"
    /\ argv' = NoArgs
    /\ stdout' = <<>>
    /\ listed' = <<>>
    /\ acquired' = FALSE
    /\ calls' = {}
    /\ logged' = <<>>
    /\ outcome' = [op |-> "", raised |-> ""]
    /\ entry' = NoEntry
    /\ UNCHANGED <<env, pc, locals, error, ninv, until, rootExists, rootFiles>>

NextCli ==
    \/ CliStart \/ CliConstruct \/ CliCreate \/ CliRestore \/ CliList
    \/ CliOperationReturns \/ CliProcessEnds
    \/ CreateListDatabases \/ CreateSnapshotDir \/ CreateNextDatabase
    \/ CreateExport \/ CreateDone \/ CreateExcept \/ CreateFinally
    \/ RestoreValidate \/ RestoreNextDatabase \/ RestoreDelete
    \/ RestoreRead \/ RestoreInsert \/ RestoreDone \/ RestoreExcept \/ RestoreFinally

SpecCli == InitCli /\ [][NextCli]_vars

(***************************************************************************)
(* Properties.                                                             *)
(***************************************************************************)
Returned(op) == pc = "returned" /\ outcome.op = op
Succeeded(op) == Returned(op) /\ outcome.raised = ""
ConnectErrors == {"ConfigurationError", "ServerSelectionTimeoutError"}
\* the collection files restore_snapshot(name) iterates over
RestoredFiles(name) ==
    {p \in DOMAIN files : p[1] = name /\ <<p[1], p[2]>> \in dbDirs /\ EndsWithJson(p[3])}

\* C1: restore overwrites.  When the insert step of a collection is reached the
\* collection has already been emptied by the delete step of this invocation
\* and nothing has been inserted yet; and when restore_snapshot returns without
\* error, every collection that has a collection file in the snapshot holds
\* exactly the documents decoded from that file, in file order.
C1_Overwrite ==
    /\ pc = "r_insert" =>
          /\ server[<<db_name, collection_name>>].docs = <<>>
          /\ Call("delete_many", -1, db_name, collection_name) \in calls
          /\ Call("insert_many", -1, db_name, collection_name) \notin calls
    /\ Succeeded("restore") =>
          \A p \in RestoredFiles(snapshot_name) :
             server[<<p[2], StripSuffix(p[3])>>].docs = ParsedDocuments(files[p])

\* a restore returned without error, and the two documents the collection held
\* before it, neither of them in the snapshot, are gone
C1_Witness ==
    /\ Succeeded("restore")
    /\ entry.server[<<"shop", "c1">>].docs = <<DocNested, DocOid>>
    /\ files[<<snapshot_name, "shop", CollectionFile("c1")>>] = <<PyStr(DocPlain)>>
    /\ server[<<"shop", "c1">>].docs = <<DocPlain>>

NoDeleteNoInsert == \A c \in calls : c[1] \notin {"delete_many", "insert_many"}
DiskUnchanged == snapDirs = entry.snapDirs /\ dbDirs = entry.dbDirs /\ files = entry.files
ConnectFailed == "Failed to connect to MongoDB" \in SeqRange(logged)
MissingRestore == Returned("restore") /\ snapshot_name \notin entry.snapDirs

\* C2 as stated: restore_snapshot of a name that does not exist under the
\* backup root raises the validation error, has made no delete and no insert,
\* and leaves the instance as it was.
C2_MissingAlwaysValueError ==
    MissingRestore =>
        /\ outcome.raised = "ValueError"
        /\ NoDeleteNoInsert
        /\ server = entry.server

\* C2 amended: restore_snapshot of a name that does not exist raises the
\* validation error unless acquiring the connection failed first, and then it
\* raises the connectivity error; in both cases it has made no delete and no
\* insert and the instance is as it was.
C2_MissingSnapshot ==
    MissingRestore =>
        /\ IF ConnectFailed THEN outcome.raised \in ConnectErrors
                            ELSE outcome.raised = "ValueError"
        /\ NoDeleteNoInsert
        /\ server = entry.server

\* a restore of a missing name returned the validation error over a connection
\* it had acquired
C2_Witness ==
    /\ MissingRestore
    /\ acquired
    /\ outcome.raised = "ValueError"
    /\ logged = <<"Error restoring snapshot">>

\* C3: every line create_snapshot wrote is the text of a document D, and the
\* decode step of restore_snapshot yields from it a document equal to D.
C3_RoundTrip ==
    \A p \in DOMAIN files : \A i \in 1..Len(files[p]) :
        \E d \in Docs : files[p][i] = PyStr(d) /\ DecodeLine(files[p][i]) = <<"ok", d>>

\* a line decodes to a document; a line is malformed when it starts like a
\* document and does not decode to one
ValidLine(l) == DecodeLine(l)[1] = "ok" /\ DecodeLine(l)[2][1] = "dict"
MalformedLine(l) == StartsWithBrace(l) /\ ~ValidLine(l)
ValidCount(ls) == Cardinality({i \in 1..Len(ls) : ValidLine(ls[i])})
MalformedCount(ls) == Cardinality({i \in 1..Len(ls) : MalformedLine(ls[i])})
DistinctIds(ds) == \A i, j \in 1..Len(ds) : DocId(ds[i]) = DocId(ds[j]) => i = j
ValidDocuments(ls) == SelectSeq(ParsedDocuments(ls), LAMBDA v : v[1] = "dict")
DecodeFailuresLogged ==
    Cardinality({i \in 1..Len(logged) : logged[i] = "Error parsing document"})
RECURSIVE MalformedTotal(_)
MalformedTotal(paths) ==
    IF paths = {} THEN 0
    ELSE LET p == CHOOSE q \in paths : TRUE
         IN MalformedCount(files[p]) + MalformedTotal(paths \ {p})
\* errors of the instance and the disk, which no line of a file causes
OutsideErrors == ConnectErrors \cup {"PyMongoError", "OSError", "ValueError"}

\* C4: when the files of a restored snapshot hold V valid lines (of documents
\* with distinct ids) and M malformed lines, and neither the instance nor the
\* disk fails, restore_snapshot returns without error, each collection holds
\* exactly its V decoded documents and exactly M decode failures were logged.
C4_DecodeTolerance ==
    (/\ Returned("restore")
     /\ outcome.raised \notin OutsideErrors
     /\ \A p \in RestoredFiles(snapshot_name) : DistinctIds(ValidDocuments(files[p])))
    => /\ outcome.raised = ""
       /\ \A p \in RestoredFiles(snapshot_name) :
             Len(server[<<p[2], StripSuffix(p[3])>>].docs) = ValidCount(files[p])
       /\ DecodeFailuresLogged = MalformedTotal(RestoredFiles(snapshot_name))

\* C5: whenever no invocation is in progress (the last one has returned or
\* raised), the manager holds no open connection.
C5_ConnectionReleased == pc \in {"idle", "returned"} => client # "open"

\* an invocation that had acquired its connection raised during the traversal
\* and left the connection closed
C5_Witness ==
    /\ pc = "returned"
    /\ acquired
    /\ outcome.raised = "PyMongoError"
    /\ client = "closed"

Traversing == pc \in {"c_list", "c_mkdir", "c_dbs", "c_colls",
                      "r_check", "r_dbs", "r_colls", "r_read", "r_insert"}

\* C6: while an invocation is past its connect step, and so whenever it makes a
\* database call, it works on a connection that this invocation acquired and
\* that is still open.
C6_AcquiredPerInvocation == Traversing => (acquired /\ client = "open")

DatabaseNames(srv) == {ns[1] : ns \in {n \in Namespaces : srv[n].exists}}

\* C7: after create_snapshot returns without error, the database
\* subdirectories of the snapshot it wrote are exactly the database names of
\* the instance other than 'admin' and 'local'; and no invocation reads a
\* collection of 'admin' or 'local' or makes a directory or a file for one.
C7_SkipSystemDatabases ==
    /\ Succeeded("create") =>
          SnapshotDatabases(timestamp) = DatabaseNames(entry.server) \ {"admin", "local"}
    /\ \A c \in calls :
          c[1] \in {"list_collection_names", "find", "makedirs", "write"} =>
              c[3] \notin {"admin", "local"}

RestorePcs == {"r_check", "r_dbs", "r_colls", "r_read", "r_insert"}
CreatePcs == {"c_list", "c_mkdir", "c_dbs", "c_colls"}

\* what every step of a failing restore_snapshot does, the state of the
\* collection whose insert failed apart
RestoreAborts ==
    \* once a step has raised, no database call follows and the instance is
    \* left alone
    /\ pc \in {"r_except", "r_finally"} =>
          /\ server' = server
          /\ calls' = calls
          /\ pc' \in {"r_finally", "returned"}
    \* the error is logged
    /\ pc = "r_except" =>
          /\ logged' = Append(logged, "Error restoring snapshot")
          /\ error' = error
    \* the connection is released and the same error reaches the caller
    /\ pc = "r_finally" =>
          /\ client' # "open"
          /\ outcome' = [op |-> "restore", raised |-> error]
    \* every collection other than the one in progress keeps its contents
    /\ (pc \in RestorePcs /\ pc' = "r_except") =>
          \A ns \in Namespaces :
             ns # <<db_name', collection_name'>> => server'[ns] = server[ns]

\* C8 as stated: restore_snapshot aborts on the first error other than a decode
\* error (no further delete or insert, error logged, connection released, same
\* error re-raised, processed collections keep their contents), and a
\* collection whose insert failed after its delete succeeded is left empty.
C8_InsertFailureLeavesEmpty ==
    [][/\ RestoreAborts
       /\ (pc = "r_insert" /\ pc' = "r_except") =>
             server'[<<db_name, collection_name>>].docs = <<>>]_vars

\* C8 amended: restore_snapshot aborts on the first error other than a decode
\* error as stated, and a collection whose insert failed after its delete
\* succeeded is left holding a leading part, possibly empty and possibly
\* all, of the documents decoded from its file, and nothing else.
C8_RestoreAbortsOnError ==
    [][/\ RestoreAborts
       /\ (pc = "r_insert" /\ pc' = "r_except") =>
             \E k \in 0..Len(documents) :
                server'[<<db_name, collection_name>>].docs = Prefix(documents, k)]_vars

\* a restore raised out of insert_many, the error was logged and the
\* connection closed, and the collection it had emptied holds a document
C8_Witness ==
    /\ Returned("restore")
    /\ outcome.raised = "PyMongoError"
    /\ Call("insert_many", -1, db_name, collection_name) \in calls
    /\ server[<<db_name, collection_name>>].docs # <<>>
    /\ logged[Len(logged)] = "Error restoring snapshot"
    /\ client = "closed"

\* the file a call of kind "write" wrote
WrittenPath(c) == <<c[2], c[3], CollectionFile(c[4])>>

\* C9: create_snapshot aborts on the first error after connecting: once a step
\* has raised, no further call is made and the disk is left alone (no retry),
\* the error is logged, the connection is released and the same error reaches
\* the caller; and the step that raises leaves every directory, and every file
\* this invocation had written, on disk as it was.
C9_BackupAbortsOnError ==
    [][/\ pc \in {"c_except", "c_finally"} =>
             /\ calls' = calls
             /\ snapDirs' = snapDirs /\ dbDirs' = dbDirs /\ files' = files
             /\ pc' \in {"c_finally", "returned"}
       /\ pc = "c_except" =>
             /\ logged' = Append(logged, "Error creating snapshot")
             /\ error' = error
       /\ pc = "c_finally" =>
             /\ client' # "open"
             /\ outcome' = [op |-> "create", raised |-> error]
       /\ (pc \in CreatePcs /\ pc' = "c_except") =>
             /\ snapDirs \subseteq snapDirs'
             /\ dbDirs \subseteq dbDirs'
             /\ \A c \in calls :
                   c[1] = "write" =>
                      /\ WrittenPath(c) \in DOMAIN files'
                      /\ files'[WrittenPath(c)] = files[WrittenPath(c)]]_vars

\* a create_snapshot raised while writing the second collection file of a
\* database: the first file, complete, and the directories are on disk
C9_Witness ==
    /\ Returned("create")
    /\ outcome.raised = "OSError"
    /\ logged = <<"Error creating snapshot">>
    /\ client = "closed"
    /\ timestamp \in snapDirs
    /\ <<timestamp, "shop">> \in dbDirs
    /\ \E c \in CollNames :
          /\ Call("write", timestamp, "shop", c) \in calls
          /\ <<timestamp, "shop", CollectionFile(c)>> \in DOMAIN files
          /\ files[<<timestamp, "shop", CollectionFile(c)>>]
                = EncodeLines(server[<<"shop", c>>].docs)
    /\ \E c \in CollNames :
          /\ Call("write", timestamp, "shop", c) \in calls
          /\ <<timestamp, "shop", CollectionFile(c)>> \notin DOMAIN files

\* C10: an invocation whose connect() failed makes one attempt only, makes no
\* database call, makes no directory and writes no file, leaves the instance
\* and the disk as they were, and raises the connectivity error.
C10_ConnectFailureIsFatal ==
    ConnectFailed =>
        /\ calls = {}
        /\ DiskUnchanged
        /\ server = entry.server
        /\ Cardinality({i \in 1..Len(logged) :
                            logged[i] = "Failed to connect to MongoDB"}) = 1
        /\ pc = "returned" => outcome.raised \in ConnectErrors

\* a create_snapshot returned the error of server_info() to its caller
C10_Witness ==
    /\ Returned("create")
    /\ ConnectFailed
    /\ outcome.raised = "ServerSelectionTimeoutError"
    /\ logged = <<"Failed to connect to MongoDB", "Error creating snapshot">>

\* C11: the scheduler loop never ends because of an exception: an error raised
\* by the scheduled create_snapshot or by the poll is logged, the loop waits the
\* cooldown and polls again; so after every failure the loop polls again and
\* create_snapshot is attempted again.
C11_SchedulerResilience ==
    /\ [](caller # "crashed")
    /\ [][/\ caller = "except" =>
               /\ caller' = "cooldown"
               /\ logged' = Append(logged, "Error in main loop")
          /\ caller = "cooldown" =>
               /\ caller' = "poll"
               /\ clock' = Later(clock, CooldownSeconds)]_vars
    /\ (caller = "except") ~> (caller = "poll")
    /\ (caller = "except") ~> (caller = "job")

\* a scheduled create_snapshot raised, and after the cooldown the loop has
\* started create_snapshot again
C11_Witness ==
    /\ caller = "job"
    /\ pc = "c_list"
    /\ outcome = [op |-> "create", raised |-> "PyMongoError"]

\* what the disk holds inside the snapshot directory s
SnapshotContents(ds, fs, s) ==
    [dirs |-> {d \in ds : d[1] = s},
     files |-> [p \in {q \in DOMAIN fs : q[1] = s} |-> fs[p]]]
\* the snapshots that held a collection file when the invocation began
PopulatedAtEntry == {s \in entry.snapDirs : \E p \in DOMAIN entry.files : p[1] = s}

\* C12: snapshots are immutable once created: a snapshot directory that an
\* earlier create_snapshot populated holds, at every step of every later
\* invocation, the directories and the files, line for line, that it held
\* when that invocation began.
C12_SnapshotsImmutable ==
    \A s \in PopulatedAtEntry :
        SnapshotContents(dbDirs, files, s) = SnapshotContents(entry.dbDirs, entry.files, s)

\* C13: list_snapshots returns exactly the names of the subdirectories of the
\* backup root, each once, entries that are not directories left out, in
\* descending lexicographic order, which is newest first; and it returns the
\* empty list, not an error, when the backup root is absent or holds no
\* subdirectory.
C13_ListSnapshots ==
    /\ Succeeded("list") =>
          /\ SeqRange(listed) = {FormatName(d) : d \in snapDirs}
          /\ Len(listed) = Cardinality(snapDirs)
          /\ \A i, j \in 1..Len(listed) : i < j =>
                /\ StrLess(listed[j], listed[i])
                /\ \E d, e \in snapDirs :
                      listed[i] = FormatName(d) /\ listed[j] = FormatName(e) /\ d > e
          /\ (~rootExists \/ snapDirs = {}) => listed = <<>>
    /\ (Returned("list") /\ ~rootExists) => outcome.raised = ""

\* the listing of a root that holds three snapshots, one of them two digits
\* later than the others, and an entry that is not a directory
C13_Witness ==
    /\ Succeeded("list")
    /\ snapDirs = {1, 9, 10}
    /\ rootFiles = {12}
    /\ listed = <<FormatName(10), FormatName(9), FormatName(1)>>

DiskKept == snapDirs' = snapDirs /\ dbDirs' = dbDirs /\ files' = files
\* the database a step of the loop of create_snapshot takes up
TakenUp == CHOOSE d \in databases \ databases' : TRUE

\* C14: directory creation is idempotent.  When create_snapshot comes to make
\* the snapshot directory, or the subdirectory of a database, and a directory
\* of that name exists, the step makes no makedirs call, raises no error of
\* the disk, and leaves every directory and every file as it was.
C14_IdempotentDirectoryCreation ==
    [][/\ (pc = "c_mkdir" /\ SnapshotName(clock) \in snapDirs) =>
             /\ pc' = "c_dbs"
             /\ error' = ""
             /\ calls' = calls
             /\ DiskKept
       /\ (/\ pc = "c_dbs"
           /\ databases' # databases
           /\ ~IsSystemDatabase(TakenUp)
           /\ <<timestamp, TakenUp>> \in dbDirs) =>
             /\ error' # "OSError"
             /\ \A c \in calls' \ calls : c[1] # "makedirs"
             /\ DiskKept]_vars

\* create_snapshot has passed both creation steps on a snapshot directory and
\* a database subdirectory that existed, with a file in it, when it began
C14_Witness ==
    /\ pc = "c_colls"
    /\ timestamp \in entry.snapDirs
    /\ <<timestamp, db_name>> \in entry.dbDirs
    /\ <<timestamp, db_name, CollectionFile("c1")>> \in DOMAIN entry.files
    /\ \A c \in calls : c[1] # "makedirs"
    /\ DiskUnchanged

\* the process has ended, normally or with a traceback
CliEnded == caller \in {"cli_exit", "cli_traceback"}

\* C15: a command line `restore` without a snapshot name ends normally, having
\* printed the error message and nothing else; restore_snapshot was not
\* called: no connection was opened, no call was made and the instance is as
\* it was when the process started.
C15_CliRestoreWithoutName ==
    (CliEnded /\ argv.action = "restore" /\ ~argv.given) =>
        /\ caller = "cli_exit"
        /\ stdout = <<RestoreNeedsName>>
        /\ client = "none"
        /\ calls = {}
        /\ server = entry.server

\* the collections of the databases other than 'admin' and 'local' that the
\* instance held when the invocation began
BackedUp == {ns \in Namespaces : entry.server[ns].exists /\ ns[1] \notin {"admin", "local"}}

\* C16: backup completeness.  After create_snapshot returns without error the
\* collection files of the snapshot are exactly the files <collection>.json,
\* in the subdirectory of its database, of the collections of the databases
\* other than 'admin' and 'local', and each file has one line per document
\* of its collection.
C16_BackupComplete ==
    Succeeded("create") =>
        /\ {p \in DOMAIN files : p[1] = timestamp}
              = {<<timestamp, ns[1], CollectionFile(ns[2])>> : ns \in BackedUp}
        /\ \A ns \in BackedUp :
              /\ <<timestamp, ns[1]>> \in dbDirs
              /\ Len(files[<<timestamp, ns[1], CollectionFile(ns[2])>>])
                    = Len(entry.server[ns].docs)

\* the collection file restore_snapshot is at
CurrentFile == files[<<snapshot_name, db_name, CollectionFile(collection_name)>>]

\* C17: zero decoded documents.  When the collection file that was read holds
\* no line that decodes to a document, the insert step makes no call, raises
\* no error and goes on to the next collection file, and the collection, which
\* the delete step emptied, stays empty.
C17_ZeroDecoded ==
    [][(pc = "r_insert" /\ ValidCount(CurrentFile) = 0) =>
          /\ Call("delete_many", -1, db_name, collection_name) \in calls
          /\ server[<<db_name, collection_name>>].docs = <<>>
          /\ calls' = calls
          /\ error' = ""
          /\ pc' = "r_colls"
          /\ server' = server]_vars

\* a restore_snapshot is in progress or has just returned
Restoring ==
    pc \in RestorePcs \cup {"r_done", "r_except", "r_finally"} \/ Returned("restore")
\* the collections for which the snapshot holds a file <collection>.json in
\* the subdirectory of their database
SnapshotNamespaces(name) ==
    {ns \in Namespaces : /\ <<name, ns[1]>> \in dbDirs
                         /\ <<name, ns[1], CollectionFile(ns[2])>> \in DOMAIN files}

\* C18: restore frame.  At every step of restore_snapshot, and when it has
\* returned or raised, every delete and every insert it has made was on a
\* collection for which the snapshot holds a collection file, and every other
\* collection of the instance is as it was when the invocation began.
C18_RestoreFrame ==
    Restoring =>
        /\ \A c \in calls :
              c[1] \in {"delete_many", "insert_many"} =>
                  <<c[3], c[4]>> \in SnapshotNamespaces(snapshot_name)
        /\ \A ns \in Namespaces \ SnapshotNamespaces(snapshot_name) :
              server[ns] = entry.server[ns]

\* a restore has rewritten shop.c1 from its file, and shop.c2, created after
\* the snapshot was taken, and admin.c1 hold what they held
C18_Witness ==
    /\ Returned("restore")
    /\ SnapshotNamespaces(snapshot_name) = {<<"shop", "c1">>}
    /\ Call("insert_many", -1, "shop", "c1") \in calls
    /\ server[<<"shop", "c1">>] # entry.server[<<"shop", "c1">>]
    /\ server[<<"shop", "c2">>].docs = <<DocDate>>
    /\ server[<<"admin", "c1">>].docs = <<DocPlain>>

====
